---- MODULE Spec2Model ----
(***************************************************************************)
(* Model of src/ln/router.rs: the network map kept by Router (nodes and    *)
(* channels behind one RwLock), its four gossip handlers and get_route.    *)
(*                                                                         *)
(* Public keys are small integers whose order is the order of their        *)
(* serialization; NoKey stands for PublicKey::new().  A signature is       *)
(* modelled by the key that produced it, so secp_verify_sig(sig, key)      *)
(* succeeds exactly when sig = key.                                        *)
(*                                                                         *)
(* TLC evaluates integers in 32 bits, so the unsigned widths of the code   *)
(* are scaled: u64 is 30 bits wide and u32 is 21 bits wide (U64Max,        *)
(* U32Max).  The divisor 1000000 is kept, so U32Max stays above 100%       *)
(* proportional fee as u32::max_value() does.  Arithmetic is done the way  *)
(* the build does it: with overflow checks a wrapping operation panics,    *)
(* without them it wraps modulo U64Max + 1.                                *)
(***************************************************************************)
EXTENDS Integers, Sequences, FiniteSets, TLC

VARIABLES nodes, channels, poisoned, result, ncalls, seen_update, conc

vars == <<nodes, channels, poisoned, result, ncalls, seen_update, conc>>

\* ---------------------------------------------------------------- bounds

\* Number of calls made on the Router in a behaviour of Spec.
MaxCalls == 3
\* Number of calls made on the Router after the script in a behaviour of
\* SpecRoute.
MaxRouteCalls == 2
\* Length of the longest chain of channels announced in a behaviour of
\* SpecChain.
MaxChain == 21
\* Number of calls the two threads of SpecConc begin after the script.
MaxConcCalls == 2

\* ------------------------------------------------------- program constants

U16Max == 65535
U32Max == 2097151
U64Max == 1073741823
Million == 1000000
\* "By protocol rules, this may not currently exceed 20 in length."
MaxRouteHops == 20

NoKey == 0
our_node_id == 1
Keys == 1..4
ChanIds == 1..3
Dirs == {0, 1}

\* ------------------------------------------------------------ input sets

Timestamps == {1, 2}
CltvDeltas == {1}
Flags == 0..3
\* GlobalFeatures, by what requires_unknown_bits / supports_unknown_bits say.
FeatureSets == {"known", "unknown_optional", "unknown_required"}
Aliases == {1}

requires_unknown_bits(features) == features = "unknown_required"

supports_unknown_bits(features) == features \in {"unknown_optional", "unknown_required"}

\* ------------------------------------------------------------------ maps

Min(a, b) == IF a <= b THEN a ELSE b

Has(map, key) == key \in DOMAIN map

Insert(map, key, value) ==
    [k \in (DOMAIN map) \cup {key} |-> IF k = key THEN value ELSE map[k]]

Remove(map, key) == [k \in (DOMAIN map) \ {key} |-> map[k]]

\* HandleError: err names the message, action is "IgnoreError" or "None".
\* panic is "None", or the call that panicked when the handler did not return.
Err(kind, action) == [err |-> kind, action |-> action, panic |-> "None"]

OkResult == [err |-> "Ok", action |-> "None", panic |-> "None"]

PanicAt(site) == [err |-> "Panic", action |-> "None", panic |-> site]

\* A verification that every signature passes.
AnySignatureVerifies(sig, pubkey) == TRUE

secp_verify_sig(sig, pubkey) == sig = pubkey

\* A message that never counts as older than the last processed one.
NeverStale(last_update, timestamp) == FALSE

\* A message that counts as older only when its timestamp is lower.
StaleWhenLower(last_update, timestamp) == last_update > timestamp

\* "Update older than last processed update".
Stale(last_update, timestamp) == last_update >= timestamp

\* --------------------------------------------------------------- records

NewDirectionalChannelInfo(src) ==
    [src_node_id |-> src,
     last_update |-> 0,
     enabled |-> FALSE,
     cltv_expiry_delta |-> U16Max,
     htlc_minimum_msat |-> U64Max,
     fee_base_msat |-> U32Max,
     fee_proportional_millionths |-> U32Max]

NewNodeInfo(chans) ==
    [channels |-> chans,
     lowest_inbound_channel_fee_base_msat |-> U32Max,
     lowest_inbound_channel_fee_proportional_millionths |-> U32Max,
     features |-> "known",
     last_update |-> 0,
     alias |-> 0]

\* The network map after a handler, with what the handler returned.
Outcome(res, ns, cs, poison) ==
    [res |-> res, nodes |-> ns, channels |-> cs, poisoned |-> poison]

\* ------------------------------------------------ handle_node_announcement

\* An announcement handler that creates the node it does not know.
node_announcement_creates(ns, cs, msg) ==
    IF ~secp_verify_sig(msg.signature, msg.node_id)
    THEN Outcome(Err("InvalidSignature", "None"), ns, cs, FALSE)
    ELSE IF ~Has(ns, msg.node_id)
    THEN Outcome(OkResult,
                 Insert(ns, msg.node_id,
                        [NewNodeInfo(<<>>) EXCEPT !.last_update = msg.timestamp]),
                 cs, FALSE)
    ELSE IF Stale(ns[msg.node_id].last_update, msg.timestamp)
    THEN Outcome(Err("Stale", "IgnoreError"), ns, cs, FALSE)
    ELSE Outcome(OkResult,
                 [ns EXCEPT ![msg.node_id].features = msg.features,
                            ![msg.node_id].last_update = msg.timestamp,
                            ![msg.node_id].alias = msg.alias],
                 cs, FALSE)

handle_node_announcement(ns, cs, msg) ==
    IF ~secp_verify_sig(msg.signature, msg.node_id)
    THEN Outcome(Err("InvalidSignature", "None"), ns, cs, FALSE)
    ELSE IF ~Has(ns, msg.node_id)
    THEN Outcome(Err("NoKnownChannels", "IgnoreError"), ns, cs, FALSE)
    ELSE IF Stale(ns[msg.node_id].last_update, msg.timestamp)
    THEN Outcome(Err("Stale", "IgnoreError"), ns, cs, FALSE)
    ELSE Outcome(OkResult,
                 [ns EXCEPT ![msg.node_id].features = msg.features,
                            ![msg.node_id].last_update = msg.timestamp,
                            ![msg.node_id].alias = msg.alias],
                 cs, FALSE)

\* --------------------------------------------- handle_channel_announcement

add_channel_to_node(ns, node_id, chan_id) ==
    IF Has(ns, node_id)
    THEN [ns EXCEPT ![node_id].channels = Append(@, chan_id)]
    ELSE Insert(ns, node_id, NewNodeInfo(<<chan_id>>))

\* An announcement handler in which the last announcement of a channel wins.
announcement_overwrites(ns, cs, msg) ==
    IF ~(/\ secp_verify_sig(msg.node_signature_1, msg.node_id_1)
         /\ secp_verify_sig(msg.node_signature_2, msg.node_id_2)
         /\ secp_verify_sig(msg.bitcoin_signature_1, msg.bitcoin_key_1)
         /\ secp_verify_sig(msg.bitcoin_signature_2, msg.bitcoin_key_2))
    THEN Outcome(Err("InvalidSignature", "None"), ns, cs, FALSE)
    ELSE IF requires_unknown_bits(msg.features)
    THEN Outcome(Err("UnknownRequiredFeature", "None"), ns, cs, FALSE)
    ELSE Outcome([OkResult EXCEPT !.err = IF supports_unknown_bits(msg.features)
                                          THEN "OkFalse" ELSE "OkTrue"],
                 add_channel_to_node(
                     add_channel_to_node(ns, msg.node_id_1, msg.short_channel_id),
                     msg.node_id_2, msg.short_channel_id),
                 Insert(cs, msg.short_channel_id,
                        [features |-> msg.features,
                         one_to_two |-> NewDirectionalChannelInfo(msg.node_id_1),
                         two_to_one |-> NewDirectionalChannelInfo(msg.node_id_2)]),
                 FALSE)

handle_channel_announcement(ns, cs, msg) ==
    IF ~(/\ secp_verify_sig(msg.node_signature_1, msg.node_id_1)
         /\ secp_verify_sig(msg.node_signature_2, msg.node_id_2)
         /\ secp_verify_sig(msg.bitcoin_signature_1, msg.bitcoin_key_1)
         /\ secp_verify_sig(msg.bitcoin_signature_2, msg.bitcoin_key_2))
    THEN Outcome(Err("InvalidSignature", "None"), ns, cs, FALSE)
    ELSE IF requires_unknown_bits(msg.features)
    THEN Outcome(Err("UnknownRequiredFeature", "None"), ns, cs, FALSE)
    ELSE IF Has(cs, msg.short_channel_id)
    THEN Outcome(Err("Duplicate", "IgnoreError"), ns, cs, FALSE)
    ELSE Outcome([OkResult EXCEPT !.err = IF supports_unknown_bits(msg.features)
                                          THEN "OkFalse" ELSE "OkTrue"],
                 add_channel_to_node(
                     add_channel_to_node(ns, msg.node_id_1, msg.short_channel_id),
                     msg.node_id_2, msg.short_channel_id),
                 Insert(cs, msg.short_channel_id,
                        [features |-> msg.features,
                         one_to_two |-> NewDirectionalChannelInfo(msg.node_id_1),
                         two_to_one |-> NewDirectionalChannelInfo(msg.node_id_2)]),
                 FALSE)

\* --------------------------------------------------- handle_channel_update

maybe_update_channel_info(target, msg, chan_enabled) ==
    [target EXCEPT !.last_update = msg.timestamp,
                   !.enabled = chan_enabled,
                   !.cltv_expiry_delta = msg.cltv_expiry_delta,
                   !.htlc_minimum_msat = msg.htlc_minimum_msat,
                   !.fee_base_msat = msg.fee_base_msat,
                   !.fee_proportional_millionths = msg.fee_proportional_millionths]

\* The loop of lines 277-286 over node.channels from index i on: acc holds the
\* two running minima, ok turns FALSE when channels.get(chan_id) is None.
RECURSIVE RescanInboundFees(_, _, _, _, _)
RescanInboundFees(cs, chans, i, dest_node_id, acc) ==
    IF i > Len(chans) THEN acc
    ELSE IF ~Has(cs, chans[i]) THEN [acc EXCEPT !.ok = FALSE]
    ELSE LET chan == cs[chans[i]]
             inbound == IF chan.one_to_two.src_node_id = dest_node_id
                        THEN chan.two_to_one ELSE chan.one_to_two
         IN RescanInboundFees(cs, chans, i + 1, dest_node_id,
                [ok |-> TRUE,
                 base |-> Min(acc.base, inbound.fee_base_msat),
                 prop |-> Min(acc.prop, inbound.fee_proportional_millionths)])

handle_channel_update(ns, cs, msg) ==
    LET chan_enabled == (msg.flags \div 2) % 2 = 0
        id == msg.short_channel_id
    IN IF ~Has(cs, id)
       THEN Outcome(Err("UnknownChannel", "IgnoreError"), ns, cs, FALSE)
       ELSE
       LET channel == cs[id]
           two_to_one == msg.flags % 2 = 1
           dest_node_id == IF two_to_one THEN channel.one_to_two.src_node_id
                           ELSE channel.two_to_one.src_node_id
           target == IF two_to_one THEN channel.two_to_one ELSE channel.one_to_two
           chan_was_enabled == target.enabled
           updated == maybe_update_channel_info(target, msg, chan_enabled)
           cs2 == IF two_to_one THEN [cs EXCEPT ![id].two_to_one = updated]
                  ELSE [cs EXCEPT ![id].one_to_two = updated]
       IN IF ~secp_verify_sig(msg.signature, target.src_node_id)
          THEN Outcome(Err("InvalidSignature", "None"), ns, cs, FALSE)
          ELSE IF Stale(target.last_update, msg.timestamp)
          THEN Outcome(Err("Stale", "IgnoreError"), ns, cs, FALSE)
          ELSE IF chan_enabled
          THEN IF ~Has(ns, dest_node_id)
               THEN Outcome(PanicAt("nodes.get_mut"), ns, cs2, TRUE)
               ELSE Outcome(OkResult,
                       [ns EXCEPT
                          ![dest_node_id].lowest_inbound_channel_fee_base_msat =
                              Min(@, msg.fee_base_msat),
                          ![dest_node_id].lowest_inbound_channel_fee_proportional_millionths =
                              Min(@, msg.fee_proportional_millionths)],
                       cs2, FALSE)
          ELSE IF chan_was_enabled
          THEN IF ~Has(ns, dest_node_id)
               THEN Outcome(PanicAt("nodes.get"), ns, cs2, TRUE)
               ELSE LET scan == RescanInboundFees(cs2, ns[dest_node_id].channels, 1,
                                    dest_node_id,
                                    [ok |-> TRUE, base |-> U32Max, prop |-> U32Max])
                    IN IF ~scan.ok
                       THEN Outcome(PanicAt("channels.get"), ns, cs2, TRUE)
                       ELSE Outcome(OkResult,
                               [ns EXCEPT
                                  ![dest_node_id].lowest_inbound_channel_fee_base_msat =
                                      scan.base,
                                  ![dest_node_id].lowest_inbound_channel_fee_proportional_millionths =
                                      scan.prop],
                               cs2, FALSE)
          ELSE Outcome(OkResult, ns, cs2, FALSE)

\* ----------------------------------------- handle_htlc_fail_channel_update

\* A hint handler whose ChannelClosed also takes the channel off the channel
\* lists of the nodes.
closed_channel_unlisted(ns, cs, update) ==
    IF update.type = "ChannelUpdateMessage"
    THEN LET inner == handle_channel_update(ns, cs, update.msg)
         IN IF inner.poisoned THEN inner
            ELSE Outcome(OkResult, inner.nodes, inner.channels, FALSE)
    ELSE Outcome(OkResult,
                 [n \in DOMAIN ns |->
                     [ns[n] EXCEPT !.channels =
                         SelectSeq(@, LAMBDA c : c # update.short_channel_id)]],
                 Remove(cs, update.short_channel_id), FALSE)

\* A hint handler that acts on ChannelClosed only.
update_hint_dropped(ns, cs, update) ==
    IF update.type = "ChannelUpdateMessage"
    THEN Outcome(OkResult, ns, cs, FALSE)
    ELSE Outcome(OkResult, ns, Remove(cs, update.short_channel_id), FALSE)

handle_htlc_fail_channel_update(ns, cs, update) ==
    IF update.type = "ChannelUpdateMessage"
    THEN LET inner == handle_channel_update(ns, cs, update.msg)
         IN IF inner.poisoned THEN inner
            ELSE Outcome(OkResult, inner.nodes, inner.channels, FALSE)
    ELSE Outcome(OkResult, ns, Remove(cs, update.short_channel_id), FALSE)

\* ------------------------------------------------------ u64 arithmetic

Wrap == U64Max + 1

Half == 2^15

AddOvf(a, b) == a + b > U64Max

AddW(a, b) == (a + b) % Wrap

SubOvf(a, b) == b > a

SubW(a, b) == (a - b + Wrap) % Wrap

MulOvf(a, b) == a # 0 /\ b > U64Max \div a

\* a * b modulo Wrap, computed on the halves of a and b.
MulW(a, b) ==
    LET ah == a \div Half
        al == a % Half
        bh == b \div Half
        bl == b % Half
    IN (al * bl + Half * ((ah * bl + al * bh) % Half)) % Wrap

\* --------------------------------------------------------------- get_route

NoHop == [pubkey |-> NoKey, short_channel_id |-> 0, fee_msat |-> 0,
          cltv_expiry_delta |-> 0]

\* The search: dist, the heap targets (no entry is pushed twice, as a push
\* strictly lowers the node's dist), and the call that panicked, or "None".
Panicked(S, site) == [S EXCEPT !.panic = site]

RoutePanic(site) == [err |-> "Panic", panic |-> site, hops |-> <<>>]

RouteErr(kind) == [err |-> kind, panic |-> "None", hops |-> <<>>]

\* A hop record that names no channel.
HopWithoutChannel(dest_node_id, chan_id, new_fee, info) ==
    [pubkey |-> dest_node_id, short_channel_id |-> 0, fee_msat |-> new_fee,
     cltv_expiry_delta |-> info.cltv_expiry_delta]

\* The RouteHop stored in dist for the source of an edge.
NewRouteHop(dest_node_id, chan_id, new_fee, info) ==
    [pubkey |-> dest_node_id, short_channel_id |-> chan_id, fee_msat |-> new_fee,
     cltv_expiry_delta |-> info.cltv_expiry_delta]

\* add_entry!: the edge from info.src_node_id to dest_node_id over chan_id.
\* oc is the build's overflow-checks setting.
add_entry(S, chan_id, dest_node_id, info, starting_fee_msat, final_value_msat, oc) ==
    LET src == info.src_node_id
        amount == AddW(starting_fee_msat, final_value_msat)
        ovf1 == AddOvf(starting_fee_msat, final_value_msat)
        prod == MulW(amount, info.fee_proportional_millionths)
        ovf2 == MulOvf(amount, info.fee_proportional_millionths)
        new_fee == AddW(info.fee_base_msat, prod \div Million)
        ovf3 == AddOvf(info.fee_base_msat, prod \div Million)
    IN IF S.panic # "None" THEN S
       ELSE IF oc /\ ovf1 THEN Panicked(S, "overflow")
       ELSE IF ~(amount > info.htlc_minimum_msat) THEN S
       ELSE IF oc /\ (ovf2 \/ ovf3) THEN Panicked(S, "overflow")
       ELSE IF ~Has(S.dist, src) THEN Panicked(S, "dist.get_mut")
       ELSE
       LET old_entry == S.dist[src]
           total1 == AddW(starting_fee_msat, new_fee)
           ovf4 == AddOvf(starting_fee_msat, new_fee)
           through == AddW(final_value_msat, total1)
           ovf5 == AddOvf(final_value_msat, total1)
           hprod == MulW(old_entry.prop, through)
           ovf6 == MulOvf(old_entry.prop, through)
           heur == AddW(hprod \div Million, old_entry.base)
           ovf7 == AddOvf(hprod \div Million, old_entry.base)
           total2 == AddW(total1, heur)
           ovf8 == AddOvf(total1, heur)
           ours == src = our_node_id
           total_fee == IF ours THEN starting_fee_msat ELSE total2
           ovf == ~ours /\ (ovf4 \/ ovf5 \/ ovf6 \/ ovf7 \/ ovf8)
       IN IF oc /\ ovf THEN Panicked(S, "overflow")
          ELSE IF old_entry.cost > total_fee
          THEN [S EXCEPT
                  !.targets = @ \cup {[pubkey |-> src,
                                       lowest_fee_to_peer_through_node |-> total_fee]},
                  !.dist[src].cost = total_fee,
                  !.dist[src].hop = NewRouteHop(dest_node_id, chan_id, new_fee, info)]
          ELSE S

\* add_entries_to_cheapest_to_target_node!: node.channels from index i on.
RECURSIVE add_entries_to_cheapest_to_target_node(_, _, _, _, _, _, _, _)
add_entries_to_cheapest_to_target_node(S, cs, chans, i, node_id, fee_to_target_msat, final_value_msat, oc) ==
    IF S.panic # "None" \/ i > Len(chans) THEN S
    ELSE IF ~Has(cs, chans[i]) THEN Panicked(S, "channels.get")
    ELSE
    LET chan == cs[chans[i]]
        S2 == IF chan.one_to_two.src_node_id = node_id
              THEN IF chan.two_to_one.enabled
                   THEN add_entry(S, chans[i], chan.one_to_two.src_node_id,
                                  chan.two_to_one, fee_to_target_msat,
                                  final_value_msat, oc)
                   ELSE S
              ELSE IF chan.one_to_two.enabled
                   THEN add_entry(S, chans[i], chan.two_to_one.src_node_id,
                                  chan.one_to_two, fee_to_target_msat,
                                  final_value_msat, oc)
                   ELSE S
    IN add_entries_to_cheapest_to_target_node(S2, cs, chans, i + 1, node_id,
                                              fee_to_target_msat, final_value_msat, oc)

\* The loop over last_hops (lines 445-449).
RECURSIVE AddLastHops(_, _, _, _, _, _, _)
AddLastHops(S, ns, last_hops, i, target, final_value_msat, oc) ==
    IF S.panic # "None" \/ i > Len(last_hops) THEN S
    ELSE AddLastHops(
            IF Has(ns, last_hops[i].src_node_id)
            THEN add_entry(S, last_hops[i].short_channel_id, target, last_hops[i],
                           0, final_value_msat, oc)
            ELSE S,
            ns, last_hops, i + 1, target, final_value_msat, oc)

\* A heap whose order among entries of equal fee changes from call to call.
UnstableTop(targets) ==
    CHOOSE t \in targets : \A u \in targets :
        \/ t.lowest_fee_to_peer_through_node < u.lowest_fee_to_peer_through_node
        \/ /\ t.lowest_fee_to_peer_through_node = u.lowest_fee_to_peer_through_node
           /\ IF ncalls % 2 = 0 THEN t.pubkey <= u.pubkey ELSE t.pubkey >= u.pubkey

\* BinaryHeap::pop under RouteGraphNode::cmp: the lowest fee, then the lowest
\* serialized public key.
HeapTop(targets) ==
    CHOOSE t \in targets : \A u \in targets :
        \/ t.lowest_fee_to_peer_through_node < u.lowest_fee_to_peer_through_node
        \/ /\ t.lowest_fee_to_peer_through_node = u.lowest_fee_to_peer_through_node
           /\ t.pubkey <= u.pubkey

\* A route whose last hop is left as the walk stored it.
LastHopAsStored(res, final_value_msat, final_cltv) == res

\* The last hop carries the payment itself.
FinishRoute(res, final_value_msat, final_cltv) ==
    [res EXCEPT ![Len(res)].fee_msat = final_value_msat,
                ![Len(res)].cltv_expiry_delta = final_cltv]

\* Lines 453-464: the walk along the stored hops, removing each dist entry.
RECURSIVE BuildRoute(_, _, _, _, _)
BuildRoute(res, dist, target, final_value_msat, final_cltv) ==
    LET last == res[Len(res)]
    IN IF last.pubkey = target
       THEN [err |-> "Ok", panic |-> "None",
             hops |-> FinishRoute(res, final_value_msat, final_cltv)]
       ELSE IF ~Has(dist, last.pubkey)
       THEN RoutePanic("dist.remove")
       ELSE LET new_entry == dist[last.pubkey].hop
            IN BuildRoute(
                  Append([res EXCEPT ![Len(res)].fee_msat = new_entry.fee_msat,
                                     ![Len(res)].cltv_expiry_delta =
                                         new_entry.cltv_expiry_delta],
                         new_entry),
                  Remove(dist, last.pubkey), target, final_value_msat, final_cltv)

\* The while loop of lines 451-475.
RECURSIVE RouteLoop(_, _, _, _, _, _, _)
RouteLoop(S, ns, cs, target, final_value_msat, final_cltv, oc) ==
    IF S.panic # "None" THEN RoutePanic(S.panic)
    ELSE IF S.targets = {} THEN RouteErr("NoPath")
    ELSE
    LET top == HeapTop(S.targets)
        pubkey == top.pubkey
        lowest == top.lowest_fee_to_peer_through_node
        popped == [S EXCEPT !.targets = @ \ {top}]
    IN IF pubkey = our_node_id
       THEN IF ~Has(S.dist, our_node_id)
            THEN RoutePanic("dist.remove")
            ELSE BuildRoute(<<S.dist[our_node_id].hop>>, Remove(S.dist, our_node_id),
                            target, final_value_msat, final_cltv)
       ELSE IF ~Has(ns, pubkey)
       THEN RouteLoop(popped, ns, cs, target, final_value_msat, final_cltv, oc)
       ELSE
       LET node == ns[pubkey]
           fee1 == SubW(lowest, node.lowest_inbound_channel_fee_base_msat)
           ovf1 == SubOvf(lowest, node.lowest_inbound_channel_fee_base_msat)
           sum == AddW(fee1, final_value_msat)
           ovf2 == AddOvf(fee1, final_value_msat)
           prod == MulW(node.lowest_inbound_channel_fee_proportional_millionths, sum)
           ovf3 == MulOvf(node.lowest_inbound_channel_fee_proportional_millionths, sum)
           fee == SubW(fee1, prod \div Million)
           ovf4 == SubOvf(fee1, prod \div Million)
       IN IF oc /\ (ovf1 \/ ovf2 \/ ovf3 \/ ovf4)
          THEN RoutePanic("overflow")
          ELSE RouteLoop(
                  add_entries_to_cheapest_to_target_node(popped, cs, node.channels, 1,
                      pubkey, fee, final_value_msat, oc),
                  ns, cs, target, final_value_msat, final_cltv, oc)

\* A route search that starts without comparing the target with the local node.
route_to_any_target(ns, cs, target, last_hops, final_value_msat, final_cltv, oc) ==
    LET S0 == [dist |-> [k \in DOMAIN ns |->
                           [cost |-> U64Max,
                            base |-> ns[k].lowest_inbound_channel_fee_base_msat,
                            prop |-> ns[k].lowest_inbound_channel_fee_proportional_millionths,
                            hop |-> NoHop]],
               targets |-> {},
               panic |-> "None"]
        S1 == IF Has(ns, target)
              THEN add_entries_to_cheapest_to_target_node(S0, cs, ns[target].channels,
                       1, target, 0, final_value_msat, oc)
              ELSE S0
        S2 == AddLastHops(S1, ns, last_hops, 1, target, final_value_msat, oc)
    IN RouteLoop(S2, ns, cs, target, final_value_msat, final_cltv, oc)

get_route(ns, cs, target, last_hops, final_value_msat, final_cltv, oc) ==
    IF target = our_node_id
    THEN RouteErr("RouteToSelf")
    ELSE
    LET S0 == [dist |-> [k \in DOMAIN ns |->
                           [cost |-> U64Max,
                            base |-> ns[k].lowest_inbound_channel_fee_base_msat,
                            prop |-> ns[k].lowest_inbound_channel_fee_proportional_millionths,
                            hop |-> NoHop]],
               targets |-> {},
               panic |-> "None"]
        S1 == IF Has(ns, target)
              THEN add_entries_to_cheapest_to_target_node(S0, cs, ns[target].channels,
                       1, target, 0, final_value_msat, oc)
              ELSE S0
        S2 == AddLastHops(S1, ns, last_hops, 1, target, final_value_msat, oc)
    IN RouteLoop(S2, ns, cs, target, final_value_msat, final_cltv, oc)

\* -------------------------------------------------------------- messages

NodeAnnouncementMsgs ==
    [node_id : Keys, timestamp : Timestamps, signature : Keys,
     features : {"known"}, alias : Aliases]

\* bad names the signature (1..4) that was not made by its key, 0 for none.
ChannelAnnouncementMsg(id, ends, features, bad) ==
    [short_channel_id |-> id, features |-> features,
     node_id_1 |-> ends[1], node_id_2 |-> ends[2],
     bitcoin_key_1 |-> ends[1], bitcoin_key_2 |-> ends[2],
     node_signature_1 |-> IF bad = 1 THEN NoKey ELSE ends[1],
     node_signature_2 |-> IF bad = 2 THEN NoKey ELSE ends[2],
     bitcoin_signature_1 |-> IF bad = 3 THEN NoKey ELSE ends[1],
     bitcoin_signature_2 |-> IF bad = 4 THEN NoKey ELSE ends[2]]

\* policy is (fee_base_msat, fee_proportional_millionths, htlc_minimum_msat).
ChannelUpdateMsg(id, ts, flags, cltv, policy, sig) ==
    [short_channel_id |-> id, timestamp |-> ts, flags |-> flags,
     cltv_expiry_delta |-> cltv, htlc_minimum_msat |-> policy[3],
     fee_base_msat |-> policy[1], fee_proportional_millionths |-> policy[2],
     signature |-> sig]

ChannelAnnouncementsOver(ids, endpoints) ==
    {ChannelAnnouncementMsg(id, ends, f, 0) :
        id \in ids, ends \in endpoints, f \in FeatureSets}
    \cup {ChannelAnnouncementMsg(id, ends, "known", bad) :
        id \in ids, ends \in endpoints, bad \in 1..4}

ChannelUpdatesOver(ids, policies, signers) ==
    {ChannelUpdateMsg(id, ts, flags, cltv, policy, sig) :
        id \in ids, ts \in Timestamps, flags \in Flags,
        cltv \in CltvDeltas, policy \in policies, sig \in signers}

HTLCFailChannelUpdatesOver(ids, updates) ==
    {[type |-> "ChannelUpdateMessage", msg |-> m] : m \in updates}
    \cup {[type |-> "ChannelClosed", short_channel_id |-> id] : id \in ids}

\* What the peers of Spec send: two channel ids among three nodes.
GossipChanIds == {1, 2}

Endpoints == {<<1, 2>>, <<1, 3>>, <<2, 3>>, <<2, 2>>}

Policies == {<<0, 0, 0>>, <<1, 0, 0>>, <<0, 0, 1>>}

ChannelAnnouncementMsgs == ChannelAnnouncementsOver(GossipChanIds, Endpoints)

ChannelUpdateMsgs == ChannelUpdatesOver(GossipChanIds, Policies, Keys)

HTLCFailChannelUpdates ==
    HTLCFailChannelUpdatesOver(GossipChanIds,
        ChannelUpdatesOver(GossipChanIds, {<<1, 0, 0>>}, Keys))

\* ----------------------------------------------------------- the machine

\* The highest last_update each (channel id, direction) has held so far.
Observe(seen, cs) ==
    [p \in ChanIds \X Dirs |->
        IF Has(cs, p[1])
        THEN LET lu == IF p[2] = 0 THEN cs[p[1]].one_to_two.last_update
                       ELSE cs[p[1]].two_to_one.last_update
             IN IF lu > seen[p] THEN lu ELSE seen[p]
        ELSE seen[p]]

\* A gossip handler takes the write lock (write().unwrap() panics once the
\* lock is poisoned), runs to its end and leaves its outcome.
Apply(op, o) ==
    /\ nodes' = o.nodes
    /\ channels' = o.channels
    /\ poisoned' = o.poisoned
    /\ result' = [op |-> op, err |-> o.res.err, action |-> o.res.action,
                  panic |-> o.res.panic]
    /\ ncalls' = ncalls + 1
    /\ seen_update' = Observe(seen_update, o.channels)
    /\ UNCHANGED conc

NodeAnnouncementOf(msgs) ==
    \E msg \in msgs :
        Apply("handle_node_announcement",
              handle_node_announcement(nodes, channels, msg))

ChannelAnnouncementOf(msgs) ==
    \E msg \in msgs :
        Apply("handle_channel_announcement",
              handle_channel_announcement(nodes, channels, msg))

ChannelUpdateOf(msgs) ==
    \E msg \in msgs :
        Apply("handle_channel_update",
              handle_channel_update(nodes, channels, msg))

HTLCFailChannelUpdateOf(updates) ==
    \E update \in updates :
        Apply("handle_htlc_fail_channel_update",
              handle_htlc_fail_channel_update(nodes, channels, update))

\* get_route takes the read lock and leaves the map as it is.  oc is the
\* overflow-checks setting of the build that runs the call.
GetRouteOf(targets, hops, values, cltvs) ==
    /\ \E target \in targets, last_hops \in hops, final_value_msat \in values,
          final_cltv \in cltvs, oc \in BOOLEAN :
          LET r == get_route(nodes, channels, target, last_hops, final_value_msat,
                             final_cltv, oc)
          IN result' = [op |-> "get_route", err |-> r.err, action |-> "None",
                        panic |-> r.panic, hops |-> r.hops, target |-> target, last_hops |-> last_hops,
                        final_value_msat |-> final_value_msat,
                        final_cltv |-> final_cltv, overflow_checks |-> oc]
    /\ ncalls' = ncalls + 1
    /\ UNCHANGED <<nodes, channels, poisoned, seen_update, conc>>

\* Router::new(our_node_id).
NewRouter ==
    [nodes |-> (our_node_id :> NewNodeInfo(<<>>)), channels |-> <<>>]

\* No thread is inside a call: the RwLock is free.  committed holds the maps
\* at the boundaries of handler calls, seen the map a get_route call read.
ConcIdle(committed) ==
    [writer |-> [pc |-> "idle"], reader |-> [pc |-> "idle"],
     committed |-> committed, seen |-> {}]

Init ==
    /\ nodes = NewRouter.nodes
    /\ channels = NewRouter.channels
    /\ poisoned = FALSE
    /\ result = [op |-> "new", err |-> "Ok", action |-> "None", panic |-> "None"]
    /\ ncalls = 0
    /\ seen_update = [p \in ChanIds \X Dirs |-> 0]
    /\ conc = ConcIdle({})

NodeAnnouncement ==
    /\ ~poisoned /\ ncalls < MaxCalls
    /\ NodeAnnouncementOf(NodeAnnouncementMsgs)

ChannelAnnouncement ==
    /\ ~poisoned /\ ncalls < MaxCalls
    /\ ChannelAnnouncementOf(ChannelAnnouncementMsgs)

ChannelUpdate ==
    /\ ~poisoned /\ ncalls < MaxCalls
    /\ ChannelUpdateOf(ChannelUpdateMsgs)

HTLCFailChannelUpdate ==
    /\ ~poisoned /\ ncalls < MaxCalls
    /\ HTLCFailChannelUpdateOf(HTLCFailChannelUpdates)

Next ==
    \/ NodeAnnouncement
    \/ ChannelAnnouncement
    \/ ChannelUpdate
    \/ HTLCFailChannelUpdate

Spec == Init /\ [][Next]_vars

\* ------------------------------------------------- the router after a script
\* SpecRoute starts from the maps the handlers build from a script of gossip:
\* optionally the announcement of channel 1 between 2 and 3 and its closing,
\* then the announcements of channels 1 (1-2), 2 (1-3) and 3 (2-3), then at
\* most one update, with timestamp 1, of each direction of ScriptDirs.

ScriptEndpoints == <<<<1, 2>>, <<1, 3>>, <<2, 3>>>>

ScriptDirs == <<<<1, 0>>, <<2, 0>>, <<3, 0>>>>

RoutePolicies == <<<<0, 0, 0>>, <<1, 0, 1>>>>

RECURSIVE Announced(_, _)
Announced(map, i) ==
    IF i > Len(ScriptEndpoints) THEN map
    ELSE LET o == handle_channel_announcement(map.nodes, map.channels,
                      ChannelAnnouncementMsg(i, ScriptEndpoints[i], "known", 0))
         IN Announced([nodes |-> o.nodes, channels |-> o.channels], i + 1)

\* choice[i] is 0 for no update of ScriptDirs[i], or the index of its policy.
RECURSIVE Updated(_, _, _)
Updated(map, choice, i) ==
    IF i > Len(ScriptDirs) THEN map
    ELSE IF choice[i] = 0 THEN Updated(map, choice, i + 1)
    ELSE LET id == ScriptDirs[i][1]
             dir == ScriptDirs[i][2]
             o == handle_channel_update(map.nodes, map.channels,
                      ChannelUpdateMsg(id, 1, dir, 1, RoutePolicies[choice[i]],
                                       ScriptEndpoints[id][dir + 1]))
         IN Updated([nodes |-> o.nodes, channels |-> o.channels], choice, i + 1)

\* Channel 1 announced between 2 and 3, then closed.
Reused ==
    LET a == handle_channel_announcement(NewRouter.nodes, NewRouter.channels,
                 ChannelAnnouncementMsg(1, <<2, 3>>, "known", 0))
        c == handle_htlc_fail_channel_update(a.nodes, a.channels,
                 [type |-> "ChannelClosed", short_channel_id |-> 1])
    IN [nodes |-> c.nodes, channels |-> c.channels]

Scripted(choice, reused) ==
    Updated(Announced(IF reused THEN Reused ELSE NewRouter, 1), choice, 1)

RouteEndpoints == {<<1, 2>>, <<1, 3>>, <<2, 3>>}

RouteAnnouncementMsgs ==
    {ChannelAnnouncementMsg(id, ends, "known", 0) :
        id \in ChanIds, ends \in RouteEndpoints}

\* Updates signed by the node the script gave the direction to.
RouteUpdateMsgs ==
    {ChannelUpdateMsg(id, ts, flags, 1, policy, ScriptEndpoints[id][(flags % 2) + 1]) :
        id \in ChanIds, ts \in Timestamps, flags \in Flags,
        policy \in {RoutePolicies[1], RoutePolicies[2]}}

RouteFailUpdates == HTLCFailChannelUpdatesOver(ChanIds, {})

\* RouteHint of a last hop from src into the target.
RouteHint(src, id, base) ==
    [src_node_id |-> src, short_channel_id |-> id, fee_base_msat |-> base,
     fee_proportional_millionths |-> 0, cltv_expiry_delta |-> 2,
     htlc_minimum_msat |-> 0]

LastHops ==
    {<<>>,
     <<RouteHint(2, 8, 1), RouteHint(3, 9, 0)>>,
     <<RouteHint(2, 8, 0), RouteHint(2, 9, 1)>>}

FinalValues == {1, 2}

FinalCltvs == {9}

InitRoute ==
    \E choice \in [1..Len(ScriptDirs) -> 0..Len(RoutePolicies)],
       reused \in BOOLEAN :
        /\ nodes = Scripted(choice, reused).nodes
        /\ channels = Scripted(choice, reused).channels
        /\ poisoned = FALSE
        /\ result = [op |-> "new", err |-> "Ok", action |-> "None", panic |-> "None"]
        /\ ncalls = 0
        /\ seen_update =
               Observe([p \in ChanIds \X Dirs |-> 0],
                       Scripted(choice, reused).channels)
        /\ conc = ConcIdle({})

RouteChannelAnnouncement ==
    /\ ~poisoned /\ ncalls < MaxRouteCalls
    /\ ChannelAnnouncementOf(RouteAnnouncementMsgs)

RouteChannelUpdate ==
    /\ ~poisoned /\ ncalls < MaxRouteCalls
    /\ ChannelUpdateOf(RouteUpdateMsgs)

RouteChannelClosed ==
    /\ ~poisoned /\ ncalls < MaxRouteCalls
    /\ HTLCFailChannelUpdateOf(RouteFailUpdates)

GetRoute ==
    /\ ~poisoned /\ ncalls < MaxRouteCalls
    /\ GetRouteOf(Keys, LastHops, FinalValues, FinalCltvs)

NextRoute ==
    \/ RouteChannelAnnouncement
    \/ RouteChannelUpdate
    \/ RouteChannelClosed
    \/ GetRoute

SpecRoute == InitRoute /\ [][NextRoute]_vars

\* ------------------------------------------------- a chain of channels
\* SpecChain: a peer announces channel 1 between nodes 1 and 2, channel 2
\* between 2 and 3, and so on, each once the one before it is enabled, and
\* enables each from its lower to its higher node.

ChainPolicy == <<1, 0, 0>>

MaxChainCalls == 2 * MaxChain + 1

ChainLen == Cardinality(DOMAIN channels)

InitChain == Init

ChainChannelAnnouncement ==
    /\ ~poisoned /\ ncalls < MaxChainCalls
    /\ ChainLen < MaxChain
    /\ ChainLen > 0 => channels[ChainLen].one_to_two.enabled
    /\ ChannelAnnouncementOf(
           {ChannelAnnouncementMsg(ChainLen + 1, <<ChainLen + 1, ChainLen + 2>>,
                                   "known", 0)})

ChainChannelUpdate ==
    /\ ~poisoned /\ ncalls < MaxChainCalls
    /\ ChainLen > 0
    /\ ChannelUpdateOf(
           {ChannelUpdateMsg(ChainLen, 1, 0, 1, ChainPolicy, ChainLen)})

ChainGetRoute ==
    /\ ~poisoned /\ ncalls < MaxChainCalls
    /\ GetRouteOf({ChainLen, ChainLen + 1}, {<<>>}, {1}, FinalCltvs)

NextChain ==
    \/ ChainChannelAnnouncement
    \/ ChainChannelUpdate
    \/ ChainGetRoute

SpecChain == InitChain /\ [][NextChain]_vars

\* ------------------------------------------------- two threads, one RwLock
\* SpecConc: a thread of gossip handler calls and a thread of get_route calls
\* on the maps of the script.  A handler takes the write lock, stores what it
\* stores in channels, then what it stores in nodes, and releases the lock; a
\* get_route call takes the read lock, reads nodes for dist, then searches.

\* A lock that readers take whatever the writer does.
ReadUnlocked(c) == TRUE

\* RwLock::read returns once no writer holds the lock.
CanRead(c) == c.writer.pc = "idle"

\* RwLock::write returns once no thread holds the lock.
CanWrite(c) == c.writer.pc = "idle" /\ c.reader.pc = "idle"

ConcCalls ==
    {[op |-> "handle_channel_update", msg |-> msg] :
        msg \in {m \in RouteUpdateMsgs : m.timestamp = 2}}
    \cup {[op |-> "handle_channel_announcement", msg |-> msg] :
        msg \in RouteAnnouncementMsgs}
    \cup {[op |-> "handle_htlc_fail_channel_update", msg |-> update] :
        update \in RouteFailUpdates}
    \cup {[op |-> "handle_node_announcement",
           msg |-> [node_id |-> k, timestamp |-> 1, signature |-> k,
                    features |-> "known", alias |-> 1]] : k \in {2, 3}}

ConcQueries ==
    [target : {2, 3}, last_hops : {<<>>}, final_value_msat : {1},
     final_cltv : FinalCltvs, oc : {TRUE}]

\* What the handler of call does to the map it finds.
HandlerOutcome(call) ==
    CASE call.op = "handle_channel_update" ->
             handle_channel_update(nodes, channels, call.msg)
      [] call.op = "handle_channel_announcement" ->
             handle_channel_announcement(nodes, channels, call.msg)
      [] call.op = "handle_htlc_fail_channel_update" ->
             handle_htlc_fail_channel_update(nodes, channels, call.msg)
      [] call.op = "handle_node_announcement" ->
             handle_node_announcement(nodes, channels, call.msg)

\* The record get_route leaves in result.
RouteResult(r, q) ==
    [op |-> "get_route", err |-> r.err, action |-> "None", panic |-> r.panic,
     hops |-> r.hops, target |-> q.target, last_hops |-> q.last_hops,
     final_value_msat |-> q.final_value_msat, final_cltv |-> q.final_cltv,
     overflow_checks |-> q.oc]

InitConc ==
    \E choice \in [1..Len(ScriptDirs) -> 0..Len(RoutePolicies)] :
        /\ nodes = Scripted(choice, FALSE).nodes
        /\ channels = Scripted(choice, FALSE).channels
        /\ poisoned = FALSE
        /\ result = [op |-> "new", err |-> "Ok", action |-> "None", panic |-> "None"]
        /\ ncalls = 0
        /\ seen_update =
               Observe([p \in ChanIds \X Dirs |-> 0],
                       Scripted(choice, FALSE).channels)
        /\ conc = ConcIdle({[nodes |-> Scripted(choice, FALSE).nodes,
                             channels |-> Scripted(choice, FALSE).channels]})

\* network_map.write().unwrap(): a panic once the lock is poisoned.
ConcHandlerBegin ==
    /\ ncalls < MaxConcCalls
    /\ conc.writer.pc = "idle"
    /\ ncalls' = ncalls + 1
    /\ \E call \in ConcCalls :
          IF poisoned
          THEN /\ result' = [op |-> call.op, err |-> "Panic", action |-> "None",
                             panic |-> "network_map.write"]
               /\ UNCHANGED conc
          ELSE /\ CanWrite(conc)
               /\ conc' = [conc EXCEPT !.writer = [pc |-> "locked", call |-> call]]
               /\ UNCHANGED result
    /\ UNCHANGED <<nodes, channels, poisoned, seen_update>>

\* The handler's checks and what it stores in channels.
ConcHandlerStore ==
    /\ conc.writer.pc = "locked"
    /\ LET o == HandlerOutcome(conc.writer.call)
       IN /\ channels' = o.channels
          /\ conc' = [conc EXCEPT !.writer = [pc |-> "stored", call |-> conc.writer.call,
                                              outcome |-> o]]
    /\ UNCHANGED <<nodes, poisoned, result, ncalls, seen_update>>

\* What the handler stores in nodes, and its return or panic, which drops
\* the lock.
ConcHandlerFinish ==
    /\ conc.writer.pc = "stored"
    /\ LET o == conc.writer.outcome
       IN /\ nodes' = o.nodes
          /\ poisoned' = o.poisoned
          /\ result' = [op |-> conc.writer.call.op, err |-> o.res.err,
                        action |-> o.res.action, panic |-> o.res.panic]
          /\ seen_update' = Observe(seen_update, channels)
          /\ conc' = [conc EXCEPT
                        !.writer = [pc |-> "idle"],
                        !.committed = IF o.poisoned THEN @
                                      ELSE @ \cup {[nodes |-> o.nodes,
                                                    channels |-> channels]}]
    /\ UNCHANGED <<channels, ncalls>>

\* network_map.read().unwrap(): a panic once the lock is poisoned.
ConcRouteBegin ==
    /\ ncalls < MaxConcCalls
    /\ conc.reader.pc = "idle"
    /\ ncalls' = ncalls + 1
    /\ \E q \in ConcQueries :
          IF poisoned
          THEN /\ result' = RouteResult(RoutePanic("network_map.read"), q)
               /\ UNCHANGED conc
          ELSE /\ CanRead(conc)
               /\ conc' = [conc EXCEPT !.reader = [pc |-> "locked", query |-> q]]
               /\ UNCHANGED result
    /\ UNCHANGED <<nodes, channels, poisoned, seen_update>>

\* The loop of lines 374-384 reads every node into dist.
ConcRouteInit ==
    /\ conc.reader.pc = "locked"
    /\ conc' = [conc EXCEPT !.reader = [pc |-> "initialized",
                                        query |-> conc.reader.query,
                                        nodes |-> nodes]]
    /\ UNCHANGED <<nodes, channels, poisoned, result, ncalls, seen_update>>

\* The search reads the channels, and the return drops the lock.
ConcRouteSearch ==
    /\ conc.reader.pc = "initialized"
    /\ LET q == conc.reader.query
       IN result' = RouteResult(get_route(conc.reader.nodes, channels, q.target,
                                          q.last_hops, q.final_value_msat,
                                          q.final_cltv, q.oc), q)
    /\ conc' = [conc EXCEPT !.reader = [pc |-> "idle"],
                            !.seen = {[nodes |-> conc.reader.nodes,
                                       channels |-> channels]}]
    /\ UNCHANGED <<nodes, channels, poisoned, ncalls, seen_update>>

NextConc ==
    \/ ConcHandlerBegin
    \/ ConcHandlerStore
    \/ ConcHandlerFinish
    \/ ConcRouteBegin
    \/ ConcRouteInit
    \/ ConcRouteSearch

SpecConc == InitConc /\ [][NextConc]_vars

\* ============================================================== properties

\* Every id in every node's channel list has a channel in the map.
ListedChannelsExist ==
    \A n \in DOMAIN nodes : \A i \in 1..Len(nodes[n].channels) :
        Has(channels, nodes[n].channels[i])

\* C1: in every state reachable from Router::new by gossip handler calls, every
\* channel id stored in any node's channel list is a key of the channel map.
\* A ChannelClosed hint removes the channel and leaves the lists as they are.
C1_NodeListsWithinChannelMap == ListedChannelsExist

\* The enabled directional records that point toward node n.
EnabledInbound(n) ==
    {channels[c].one_to_two : c \in {c \in DOMAIN channels :
        /\ channels[c].two_to_one.src_node_id = n
        /\ channels[c].one_to_two.enabled}}
    \cup {channels[c].two_to_one : c \in {c \in DOMAIN channels :
        /\ channels[c].one_to_two.src_node_id = n
        /\ channels[c].two_to_one.enabled}}

\* The least element of a set of numbers, or the 32-bit sentinel of none.
LowestOr32BitMax(fees) ==
    IF fees = {} THEN U32Max ELSE CHOOSE f \in fees : \A g \in fees : f <= g

\* C2: after any sequence of accepted channel updates (no channel has been
\* closed: every listed id has its channel), the cached lowest inbound base
\* fee of every node is the minimum fee_base_msat over the enabled records
\* pointing toward it, the cached proportional fee likewise, or the 32-bit
\* maximum when there is no such record.
C2_CacheIsMinimumOfEnabledInbound ==
    ListedChannelsExist =>
        \A n \in DOMAIN nodes :
            /\ nodes[n].lowest_inbound_channel_fee_base_msat =
                   LowestOr32BitMax({d.fee_base_msat : d \in EnabledInbound(n)})
            /\ nodes[n].lowest_inbound_channel_fee_proportional_millionths =
                   LowestOr32BitMax({d.fee_proportional_millionths :
                                        d \in EnabledInbound(n)})

\* C3: after any sequence of gossip handler calls, handle_channel_update and
\* get_route return normally: neither aborts because a channel id read from a
\* node's channel list has no channel in the map.
C3_NoAbortOnMissingChannel == result.panic # "channels.get"

\* ------------------------------------------------- paths of a get_route call

Returned == result.op = "get_route" /\ result.err = "Ok"

\* The fee of an edge that forwards amount, in unbounded arithmetic.
HopFee(info, amount) ==
    info.fee_base_msat + (amount * info.fee_proportional_millionths) \div Million

\* The eligible edges of a query: enabled directional records and the hints
\* whose source is a known node.
EligibleEdges(target, last_hops) ==
    {[src |-> channels[c].one_to_two.src_node_id,
      dst |-> channels[c].two_to_one.src_node_id,
      info |-> channels[c].one_to_two] :
        c \in {c \in DOMAIN channels : channels[c].one_to_two.enabled}}
    \cup {[src |-> channels[c].two_to_one.src_node_id,
           dst |-> channels[c].one_to_two.src_node_id,
           info |-> channels[c].two_to_one] :
        c \in {c \in DOMAIN channels : channels[c].two_to_one.enabled}}
    \cup {[src |-> last_hops[i].src_node_id, dst |-> target, info |-> last_hops[i]] :
        i \in {i \in 1..Len(last_hops) : Has(nodes, last_hops[i].src_node_id)}}

\* The total fees of the simple paths of eligible edges from node n to target
\* that avoid the nodes of visited, each edge forwarding more than its
\* htlc_minimum_msat and the edges out of the local node costing nothing.
RECURSIVE PathFees(_, _, _, _, _)
PathFees(n, visited, edges, target, final_value_msat) ==
    IF n = target THEN {0}
    ELSE UNION {
        {f + (IF n = our_node_id THEN 0 ELSE HopFee(e.info, final_value_msat + f)) :
            f \in {g \in PathFees(e.dst, visited \cup {e.dst}, edges, target,
                                  final_value_msat) :
                      final_value_msat + g > e.info.htlc_minimum_msat}} :
        e \in {e \in edges : e.src = n /\ e.dst \notin visited}}

\* The total fees of the eligible paths of the query that result records.
EligiblePathFees ==
    PathFees(our_node_id, {our_node_id},
             EligibleEdges(result.target, result.last_hops),
             result.target, result.final_value_msat)

RECURSIVE SumFees(_, _)
SumFees(hops, n) == IF n = 0 THEN 0 ELSE hops[n].fee_msat + SumFees(hops, n - 1)

\* What the route pays to forwarding nodes: fee_msat of all hops but the last.
RouteFee(hops) == SumFees(hops, Len(hops) - 1)

\* C4: whenever get_route returns a Route (here in a build with overflow
\* checks, where no sum has wrapped), no eligible path from the local node to
\* target has a strictly smaller total fee than the route.
C4_RouteIsFeeMinimal ==
    (Returned /\ result.overflow_checks) =>
        \A f \in EligiblePathFees : RouteFee(result.hops) <= f

\* C5: the last hop of every Route returned by get_route(target, last_hops,
\* final_value_msat, final_cltv) has pubkey = target, fee_msat =
\* final_value_msat and cltv_expiry_delta = final_cltv.
C5_LastHopIsThePayment ==
    Returned =>
        /\ Len(result.hops) >= 1
        /\ result.hops[Len(result.hops)].pubkey = result.target
        /\ result.hops[Len(result.hops)].fee_msat = result.final_value_msat
        /\ result.hops[Len(result.hops)].cltv_expiry_delta = result.final_cltv

\* A route of two hops has been returned: the walk stored other values in its
\* last hop than the ones the call was given.
C5_TwoHopRouteReturned ==
    /\ Returned
    /\ Len(result.hops) = 2
    /\ result.final_cltv # 2

\* C6: every Route returned by get_route on a graph reachable through gossip
\* has at least 1 and at most 20 hops.
C6_HopCountWithinProtocolLimit ==
    Returned => Len(result.hops) >= 1 /\ Len(result.hops) <= MaxRouteHops

\* Channel id joins nodes a and b in the map, or is a hint of the query from a
\* into b, its target.
Joins(id, a, b) ==
    \/ /\ Has(channels, id)
       /\ {channels[id].one_to_two.src_node_id,
           channels[id].two_to_one.src_node_id} = {a, b}
    \/ \E i \in 1..Len(result.last_hops) :
          /\ result.last_hops[i].short_channel_id = id
          /\ result.last_hops[i].src_node_id = a
          /\ b = result.target

\* C7: every Route returned by get_route is a connected simple path that
\* starts at the local node: the channel of hop 1 joins the local node and its
\* pubkey, the channel or hint of each later hop joins the pubkey before it
\* and its own, no pubkey occurs twice and none is the local node.
C7_RouteIsConnectedSimplePath ==
    Returned =>
        \A i \in 1..Len(result.hops) :
            /\ Joins(result.hops[i].short_channel_id,
                     IF i = 1 THEN our_node_id ELSE result.hops[i - 1].pubkey,
                     result.hops[i].pubkey)
            /\ result.hops[i].pubkey # our_node_id
            /\ \A j \in 1..Len(result.hops) :
                   j # i => result.hops[j].pubkey # result.hops[i].pubkey

\* A route of three hops has been returned, over two channels and a hint.
C7_ThreeHopRouteReturned ==
    /\ Returned
    /\ Len(result.hops) = 3
    /\ result.last_hops # <<>>

\* C8: get_route returns NoPath only when no route exists (here in a build
\* with overflow checks): after NoPath there is no path from the local node to
\* target over enabled records and hints with a known source on which every
\* hop forwards more than its htlc_minimum_msat.
C8_NoPathOnlyWithoutEligiblePath ==
    (result.op = "get_route" /\ result.err = "NoPath" /\ result.overflow_checks) =>
        EligiblePathFees = {}

\* last_update of the directional record p = (channel id, direction) of cs.
LastUpdate(cs, p) ==
    IF p[2] = 0 THEN cs[p[1]].one_to_two.last_update
    ELSE cs[p[1]].two_to_one.last_update

\* The step is handle_channel_update storing an update of direction p whose
\* timestamp is ts: the call returns Ok, or panics in the rescan that follows.
StoredUpdate(p, ts) ==
    /\ result'.op = "handle_channel_update"
    /\ result'.err \in {"Ok", "Panic"}
    /\ \E msg \in RouteUpdateMsgs :
          /\ msg.short_channel_id = p[1]
          /\ msg.flags % 2 = p[2]
          /\ msg.timestamp = ts
          /\ channels' = handle_channel_update(nodes, channels, msg).channels
          /\ nodes' = handle_channel_update(nodes, channels, msg).nodes

UpdateTarget(msg) ==
    IF msg.flags % 2 = 1 THEN channels[msg.short_channel_id].two_to_one
    ELSE channels[msg.short_channel_id].one_to_two

\* The handler returns the soft Stale error and leaves the map as it is.
RejectedAsStale(o) ==
    /\ o.res = Err("Stale", "IgnoreError")
    /\ o.nodes = nodes
    /\ o.channels = channels
    /\ ~o.poisoned

\* C10, as stated: a channel update or node announcement whose timestamp is
\* less than or equal to the stored last_update of its target fails with the
\* soft Stale error and leaves the whole network map unchanged.
C10_StaleMessageRejected ==
    /\ \A msg \in ChannelUpdateMsgs :
          (/\ Has(channels, msg.short_channel_id)
           /\ msg.timestamp <= UpdateTarget(msg).last_update)
          => RejectedAsStale(handle_channel_update(nodes, channels, msg))
    /\ \A msg \in NodeAnnouncementMsgs :
          (/\ Has(nodes, msg.node_id)
           /\ msg.timestamp <= nodes[msg.node_id].last_update)
          => RejectedAsStale(handle_node_announcement(nodes, channels, msg))

\* C10: a correctly signed channel update or node announcement whose timestamp
\* is less than or equal to the stored last_update of its target fails with
\* the soft Stale error and leaves the whole network map, cached node fees
\* included, unchanged.
C10_SignedStaleMessageRejected ==
    /\ \A msg \in ChannelUpdateMsgs :
          (/\ Has(channels, msg.short_channel_id)
           /\ msg.timestamp <= UpdateTarget(msg).last_update
           /\ secp_verify_sig(msg.signature, UpdateTarget(msg).src_node_id))
          => RejectedAsStale(handle_channel_update(nodes, channels, msg))
    /\ \A msg \in NodeAnnouncementMsgs :
          (/\ Has(nodes, msg.node_id)
           /\ msg.timestamp <= nodes[msg.node_id].last_update
           /\ secp_verify_sig(msg.signature, msg.node_id))
          => RejectedAsStale(handle_node_announcement(nodes, channels, msg))

\* A channel update has been rejected as stale, after one was accepted.
C10_StaleUpdateSeen ==
    /\ result.op = "handle_channel_update"
    /\ result.err = "Stale"
    /\ result.action = "IgnoreError"
    /\ \E p \in ChanIds \X Dirs : seen_update[p] > 0

\* C11: with the handlers and get_route on parallel threads, every get_route
\* call computes on the map as it was before or after each handler call in
\* its entirety: the nodes and channels it has read are those of one boundary
\* between handler calls.
C11_RouteReadsACommittedMap == conc.seen \subseteq conc.committed

\* A get_route call has read the map that a handler call left, one in which
\* the handler had changed both nodes and channels.
C11_RouteReadAfterHandler ==
    /\ result.op = "get_route"
    /\ \E seen \in conc.seen, before \in conc.committed :
          /\ seen.nodes # before.nodes
          /\ seen.channels # before.channels
          /\ DOMAIN seen.channels = DOMAIN before.channels

\* C12: in every reachable state the two directional records of every channel
\* in the map have two distinct source nodes: no channel is accepted whose
\* endpoints are the same node.
C12_EndpointsAreDistinct ==
    \A c \in DOMAIN channels :
        channels[c].one_to_two.src_node_id # channels[c].two_to_one.src_node_id

\* The handler returns the hard InvalidSignature error and leaves the map as
\* it is.
RejectedAsForged(o) ==
    /\ o.res = Err("InvalidSignature", "None")
    /\ o.nodes = nodes
    /\ o.channels = channels
    /\ ~o.poisoned

\* C13: a node announcement, channel announcement or channel update of a known
\* channel whose signature was not made by the expected key (the announced
\* node_id, each of the four announced keys, the source node of the direction
\* that flag bit 0 selects) returns a hard error, also when the message is
\* stale or a duplicate, and leaves the network map unchanged.
C13_ForgedMessageIsAHardError ==
    /\ \A msg \in NodeAnnouncementMsgs :
          msg.signature # msg.node_id
          => RejectedAsForged(handle_node_announcement(nodes, channels, msg))
    /\ \A msg \in ChannelAnnouncementMsgs :
          (\/ msg.node_signature_1 # msg.node_id_1
           \/ msg.node_signature_2 # msg.node_id_2
           \/ msg.bitcoin_signature_1 # msg.bitcoin_key_1
           \/ msg.bitcoin_signature_2 # msg.bitcoin_key_2)
          => RejectedAsForged(handle_channel_announcement(nodes, channels, msg))
    /\ \A msg \in ChannelUpdateMsgs :
          (/\ Has(channels, msg.short_channel_id)
           /\ msg.signature # UpdateTarget(msg).src_node_id)
          => RejectedAsForged(handle_channel_update(nodes, channels, msg))

\* A forged channel update has been rejected by a map that holds a record
\* with the latest timestamp, for which every update is stale as well.
C13_ForgedStaleUpdateSeen ==
    /\ result.op = "handle_channel_update"
    /\ result.err = "InvalidSignature"
    /\ result.action = "None"
    /\ \E c \in DOMAIN channels :
          \/ channels[c].one_to_two.last_update = 2
          \/ channels[c].two_to_one.last_update = 2

\* The handler returns the soft Duplicate error and leaves the map as it is.
RejectedAsDuplicate(o) ==
    /\ o.res = Err("Duplicate", "IgnoreError")
    /\ o.nodes = nodes
    /\ o.channels = channels
    /\ ~o.poisoned

AllSigned(msg) ==
    /\ msg.node_signature_1 = msg.node_id_1
    /\ msg.node_signature_2 = msg.node_id_2
    /\ msg.bitcoin_signature_1 = msg.bitcoin_key_1
    /\ msg.bitcoin_signature_2 = msg.bitcoin_key_2

\* C14, as stated: a correctly signed channel announcement whose channel key
\* is already in the channel map fails with the soft Duplicate error and
\* changes nothing.
C14_SignedDuplicateRejected ==
    \A msg \in ChannelAnnouncementMsgs :
        (AllSigned(msg) /\ Has(channels, msg.short_channel_id))
        => RejectedAsDuplicate(handle_channel_announcement(nodes, channels, msg))

\* C14: a correctly signed channel announcement without unknown required
\* feature bits whose channel key is already in the channel map fails with
\* the soft Duplicate error and changes nothing: the channel's two directional
\* records and the channel lists of all nodes stay as they were.
C14_SupportedDuplicateRejected ==
    \A msg \in ChannelAnnouncementMsgs :
        (/\ AllSigned(msg)
         /\ msg.features # "unknown_required"
         /\ Has(channels, msg.short_channel_id))
        => RejectedAsDuplicate(handle_channel_announcement(nodes, channels, msg))

\* An announcement of a channel that has been updated since its first
\* announcement was rejected as a duplicate.
C14_DuplicateOfUpdatedChannelSeen ==
    /\ result.op = "handle_channel_announcement"
    /\ result.err = "Duplicate"
    /\ \E c \in DOMAIN channels : channels[c].one_to_two.last_update > 0

\* C15: get_route with the local node as target returns the hard RouteToSelf
\* error for every graph, every last_hops list and every amount, also on a
\* graph on which a search would abort, and the call leaves the graph as it
\* was.
C15_RouteToSelfIsAnError ==
    /\ [](\A last_hops \in LastHops, final_value_msat \in FinalValues,
             final_cltv \in FinalCltvs, oc \in BOOLEAN :
             get_route(nodes, channels, our_node_id, last_hops, final_value_msat,
                       final_cltv, oc) = RouteErr("RouteToSelf"))
    /\ [][(result'.op = "get_route" /\ ncalls' # ncalls
           /\ result'.target = our_node_id)
          => (/\ result'.err = "RouteToSelf"
              /\ result'.action = "None"
              /\ result'.hops = <<>>
              /\ nodes' = nodes
              /\ channels' = channels)]_vars

\* A route to the local node was asked for with a non-empty last_hops list on
\* a graph on which the search for another target aborts.
C15_RouteToSelfOnBrokenGraph ==
    /\ result.op = "get_route"
    /\ result.target = our_node_id
    /\ result.err = "RouteToSelf"
    /\ result.last_hops # <<>>
    /\ \E target \in Keys :
          get_route(nodes, channels, target, <<>>, 1, 9, TRUE).err = "Panic"

\* The call that result records, made again on the graph as it is now.
SameCallAgain ==
    get_route(nodes, channels, result.target, result.last_hops,
              result.final_value_msat, result.final_cltv, result.overflow_checks)

FirstCandidates ==
    LET ns == nodes
        S0 == [dist |-> [k \in DOMAIN ns |->
                           [cost |-> U64Max,
                            base |-> ns[k].lowest_inbound_channel_fee_base_msat,
                            prop |-> ns[k].lowest_inbound_channel_fee_proportional_millionths,
                            hop |-> NoHop]],
               targets |-> {},
               panic |-> "None"]
        S1 == IF Has(ns, result.target)
              THEN add_entries_to_cheapest_to_target_node(S0, channels,
                       ns[result.target].channels, 1, result.target, 0,
                       result.final_value_msat, result.overflow_checks)
              ELSE S0
    IN AddLastHops(S1, ns, result.last_hops, 1, result.target,
                   result.final_value_msat, result.overflow_checks).targets

RejectedAsUnknownNode(o) ==
    /\ o.res = Err("NoKnownChannels", "IgnoreError")
    /\ o.nodes = nodes
    /\ o.channels = channels
    /\ ~o.poisoned

\* C17, as stated, in its last part: a node announcement for a key that is not
\* in the node map fails with the soft NoKnownChannels error without creating
\* the node.
C17_UnknownNodeAnnouncementRejected ==
    \A msg \in NodeAnnouncementMsgs :
        ~Has(nodes, msg.node_id)
        => RejectedAsUnknownNode(handle_node_announcement(nodes, channels, msg))

\* The endpoints of the channels that a step has added to the channel map.
AnnouncedEndpoints ==
    UNION {{channels'[c].one_to_two.src_node_id, channels'[c].two_to_one.src_node_id} :
              c \in DOMAIN channels' \ DOMAIN channels}

\* C17: the key set of the node map only grows: it contains the local node
\* key from construction on, a step adds a key only when it is an accepted
\* channel announcement that names the key as an endpoint, no step removes a
\* key, and a correctly signed node announcement for a key that is not in the
\* map fails with the soft NoKnownChannels error without creating the node.
C17_NodeKeysOnlyGrow ==
    /\ [](/\ our_node_id \in DOMAIN nodes
          /\ \A msg \in NodeAnnouncementMsgs :
                (msg.signature = msg.node_id /\ ~Has(nodes, msg.node_id))
                => RejectedAsUnknownNode(
                       handle_node_announcement(nodes, channels, msg)))
    /\ [][/\ DOMAIN nodes \subseteq DOMAIN nodes'
          /\ DOMAIN nodes' # DOMAIN nodes
             => /\ result'.op = "handle_channel_announcement"
                /\ result'.err \in {"OkTrue", "OkFalse"}
                /\ DOMAIN nodes' \ DOMAIN nodes \subseteq AnnouncedEndpoints]_vars

\* A node announcement was rejected for want of a channel after a channel
\* announcement had added a node and a later step had removed the channel.
C17_NodeOutlivesItsChannel ==
    /\ result.op = "handle_node_announcement"
    /\ result.err = "NoKnownChannels"
    /\ channels = <<>>
    /\ DOMAIN nodes # {our_node_id}

\* C18: handle_htlc_fail_channel_update with a ChannelUpdateMessage leaves the
\* network map exactly as handle_channel_update leaves it for the same
\* message (the same nodes, the same channels, the same abort), and when the
\* inner call fails with UnknownChannel, InvalidSignature or Stale the hint
\* returns nothing but success to its caller and the map is unchanged.
C18_UpdateHintActsAsChannelUpdate ==
    \A update \in HTLCFailChannelUpdates :
        update.type = "ChannelUpdateMessage" =>
            LET hint == handle_htlc_fail_channel_update(nodes, channels, update)
                inner == handle_channel_update(nodes, channels, update.msg)
            IN /\ hint.nodes = inner.nodes
               /\ hint.channels = inner.channels
               /\ hint.poisoned = inner.poisoned
               /\ hint.res.panic = inner.res.panic
               /\ inner.res.err \in {"UnknownChannel", "InvalidSignature", "Stale"}
                  => /\ hint.res = OkResult
                     /\ hint.nodes = nodes
                     /\ hint.channels = channels

\* The second call of a run was a hint, and the channel that the first call
\* announced holds the update that the hint carried.
C18_UpdateStoredByHint ==
    /\ result.op = "handle_htlc_fail_channel_update"
    /\ ncalls = 2
    /\ \E c \in DOMAIN channels :
          \/ channels[c].one_to_two.last_update > 0
          \/ channels[c].two_to_one.last_update > 0

\* C19: every get_route call that searches (its target is not the local node)
\* runs to its end: the loop pops finitely many heap entries, the walk from
\* the local node's distance entry reaches target, and the call ends with
\* either a Route or the NoPath error.
C19_SearchEndsWithRouteOrNoPath ==
    (result.op = "get_route" /\ result.target # our_node_id)
    => result.err \in {"Ok", "NoPath"}

\* The nodes toward which a record pointed that the step has switched from
\* enabled to disabled.
JustDisabledToward ==
    {channels[c].two_to_one.src_node_id : c \in {c \in DOMAIN channels :
        /\ Has(channels', c)
        /\ channels[c].one_to_two.enabled
        /\ ~channels'[c].one_to_two.enabled}}
    \cup {channels[c].one_to_two.src_node_id : c \in {c \in DOMAIN channels :
        /\ Has(channels', c)
        /\ channels[c].two_to_one.enabled
        /\ ~channels'[c].two_to_one.enabled}}

\* C20: when an accepted channel update disables a directional record that
\* was enabled, the two cached inbound fees of the node the record points to
\* become the minimum over the records toward that node that are still
\* enabled after the update, and the 32-bit maximum when none is enabled.
C20_RescanCountsEnabledRecordsOnly ==
    [][(result'.op = "handle_channel_update" /\ result'.err = "Ok")
       => \A n \in JustDisabledToward :
             /\ nodes'[n].lowest_inbound_channel_fee_base_msat =
                    LowestOr32BitMax({d.fee_base_msat : d \in EnabledInbound(n)})'
             /\ nodes'[n].lowest_inbound_channel_fee_proportional_millionths =
                    LowestOr32BitMax({d.fee_proportional_millionths :
                                         d \in EnabledInbound(n)})']_vars

\* ------------------------------------------------ the heuristic of the search

\* Line 398 of add_entry: the cost pushed for a node, the accumulated cost
\* plus the node's cached inbound fees on it.
TotalWithHeuristic(total_fee, final_value_msat, base, prop) ==
    AddW(total_fee,
         AddW(MulW(prop, AddW(final_value_msat, total_fee)) \div Million, base))

\* Lines 470-471 of get_route: the fee derived from a popped cost.
FeeAtPop(lowest_fee_to_peer_through_node, final_value_msat, base, prop) ==
    LET fee == SubW(lowest_fee_to_peer_through_node, base)
    IN SubW(fee, MulW(prop, AddW(fee, final_value_msat)) \div Million)

\* Cached inbound fees, payments and accumulated costs of the relaxations.
CachedBases == {0, 1, 1000}
CachedProps == {0, 1, 1000, 500000, Million}
RelaxValues == {1, 2, 1000, 100000}
RelaxCosts == {0, 1, 3, 1000}

InitHeuristic == Init

\* A node with the cached fees base and prop is relaxed at the accumulated
\* cost total_fee and pushed.
HeuristicPush ==
    /\ ncalls = 0
    /\ \E base \in CachedBases, prop \in CachedProps,
          final_value_msat \in RelaxValues, total_fee \in RelaxCosts :
          result' = [op |-> "add_entry", err |-> "Ok", action |-> "None",
                     panic |-> "None", base |-> base, prop |-> prop,
                     final_value_msat |-> final_value_msat,
                     total_fee |-> total_fee,
                     lowest_fee_to_peer_through_node |->
                         TotalWithHeuristic(total_fee, final_value_msat, base, prop)]
    /\ ncalls' = 1
    /\ UNCHANGED <<nodes, channels, poisoned, seen_update, conc>>

\* The entry is popped and the fee to relax its edges with is derived.
HeuristicPop ==
    /\ ncalls = 1
    /\ result.op = "add_entry"
    /\ result' = [result EXCEPT
                     !.op = "pop",
                     !.total_fee = result.total_fee,
                     !.lowest_fee_to_peer_through_node =
                         FeeAtPop(result.lowest_fee_to_peer_through_node,
                                  result.final_value_msat, result.base, result.prop)]
    /\ ncalls' = 2
    /\ UNCHANGED <<nodes, channels, poisoned, seen_update, conc>>

NextHeuristic == HeuristicPush \/ HeuristicPop

SpecHeuristic == InitHeuristic /\ [][NextHeuristic]_vars

\* -------------------------------------------- a channel from a node to itself

\* The router after the announcement of channel 1 with node 2 at both ends.
SelfAnnounced ==
    handle_channel_announcement(NewRouter.nodes, NewRouter.channels,
        ChannelAnnouncementMsg(1, <<2, 2>>, "known", 0))

InitSelf ==
    /\ nodes = SelfAnnounced.nodes
    /\ channels = SelfAnnounced.channels
    /\ poisoned = FALSE
    /\ result = [op |-> "handle_channel_announcement", err |-> SelfAnnounced.res.err,
                 action |-> SelfAnnounced.res.action, panic |-> SelfAnnounced.res.panic]
    /\ ncalls = 0
    /\ seen_update = [p \in ChanIds \X Dirs |-> 0]
    /\ conc = ConcIdle({})

SelfChannelUpdate ==
    /\ ~poisoned /\ ncalls < MaxCalls
    /\ ChannelUpdateOf(ChannelUpdateMsgs)

SelfChannelAnnouncement ==
    /\ ~poisoned /\ ncalls < MaxCalls
    /\ ChannelAnnouncementOf(ChannelAnnouncementMsgs)

NextSelf == SelfChannelUpdate \/ SelfChannelAnnouncement

SpecSelf == InitSelf /\ [][NextSelf]_vars

\* ------------------------------------------- routes over proportional fees

\* A line of channels from the local node: 1 - 2 - 3 - 4.
LineEndpoints == <<<<1, 2>>, <<2, 3>>, <<3, 4>>>>

\* fee_base_msat, fee_proportional_millionths, htlc_minimum_msat.
LinePolicies == <<<<0, 0, 0>>, <<3, 0, 0>>, <<0, 500000, 0>>>>

RECURSIVE LineAnnounced(_, _)
LineAnnounced(map, i) ==
    IF i > Len(LineEndpoints) THEN map
    ELSE LET o == handle_channel_announcement(map.nodes, map.channels,
                      ChannelAnnouncementMsg(i, LineEndpoints[i], "known", 0))
         IN LineAnnounced([nodes |-> o.nodes, channels |-> o.channels], i + 1)

\* choice[i] is 0 for no update of the direction of channel i away from the
\* local node, or the index of its policy.
RECURSIVE LineUpdated(_, _, _)
LineUpdated(map, choice, i) ==
    IF i > Len(LineEndpoints) THEN map
    ELSE IF choice[i] = 0 THEN LineUpdated(map, choice, i + 1)
    ELSE LET o == handle_channel_update(map.nodes, map.channels,
                      ChannelUpdateMsg(i, 1, 0, 1, LinePolicies[choice[i]],
                                       LineEndpoints[i][1]))
         IN LineUpdated([nodes |-> o.nodes, channels |-> o.channels], choice, i + 1)

LineScripted(choice) == LineUpdated(LineAnnounced(NewRouter, 1), choice, 1)

LineUpdateMsgs ==
    {ChannelUpdateMsg(id, 2, flags, 1, policy, LineEndpoints[id][(flags % 2) + 1]) :
        id \in ChanIds, flags \in {0, 2},
        policy \in {LinePolicies[2], LinePolicies[3]}}

LineValues == {1, 4}

InitLine ==
    \E choice \in [1..Len(LineEndpoints) -> 0..Len(LinePolicies)] :
        /\ nodes = LineScripted(choice).nodes
        /\ channels = LineScripted(choice).channels
        /\ poisoned = FALSE
        /\ result = [op |-> "new", err |-> "Ok", action |-> "None", panic |-> "None"]
        /\ ncalls = 0
        /\ seen_update =
               Observe([p \in ChanIds \X Dirs |-> 0], LineScripted(choice).channels)
        /\ conc = ConcIdle({})

LineChannelUpdate ==
    /\ ~poisoned /\ ncalls < MaxRouteCalls
    /\ ChannelUpdateOf(LineUpdateMsgs)

LineGetRoute ==
    /\ ~poisoned /\ ncalls < MaxRouteCalls
    /\ GetRouteOf({3, 4}, {<<>>, <<RouteHint(3, 8, 3)>>}, LineValues, FinalCltvs)

NextLine == LineChannelUpdate \/ LineGetRoute

SpecLine == InitLine /\ [][NextLine]_vars

\* The node that sends over hop i of the returned route.
HopSource(i) == IF i = 1 THEN our_node_id ELSE result.hops[i - 1].pubkey

\* The directional records of channel id whose source is node a.
RecordsFrom(id, a) ==
    {d \in {channels[id].one_to_two, channels[id].two_to_one} : d.src_node_id = a}

RECURSIVE FeesFrom(_, _)
FeesFrom(hops, i) ==
    IF i >= Len(hops) THEN 0 ELSE hops[i].fee_msat + FeesFrom(hops, i + 1)

\* The amount sent over hop i: the payment and the fees of the later
\* forwarding hops.
AmountOver(i) == result.final_value_msat + FeesFrom(result.hops, i)

\* C21: every hop of a returned Route that uses a channel of the graph
\* traverses a directional record in the direction of payment flow that is
\* enabled and whose htlc_minimum_msat is strictly less than the amount sent
\* over it (final_value_msat plus the fees of all later forwarding hops), the
\* first hop out of the local node included.
C21_HopsUseEligibleRecords ==
    Returned =>
        \A i \in 1..Len(result.hops) :
            Has(channels, result.hops[i].short_channel_id) =>
                /\ RecordsFrom(result.hops[i].short_channel_id, HopSource(i)) # {}
                /\ \A d \in RecordsFrom(result.hops[i].short_channel_id, HopSource(i)) :
                      /\ d.enabled
                      /\ d.htlc_minimum_msat < AmountOver(i)

\* The fee and delay settings that the comparison gives to the records of the
\* local node: fee_base_msat, fee_proportional_millionths, cltv_expiry_delta.
LocalSettings == {<<0, 0, 1>>, <<1, 1, 2>>, <<U32Max, U32Max, U16Max>>}

\* A record with the settings of triple, when its source is the local node.
WithLocalSettings(d, triple) ==
    IF d.src_node_id = our_node_id
    THEN [d EXCEPT !.fee_base_msat = triple[1],
                   !.fee_proportional_millionths = triple[2],
                   !.cltv_expiry_delta = triple[3]]
    ELSE d

\* The channel map with the settings of triple in every record whose source
\* is the local node, and nothing else changed.
LocalRecordsSet(cs, triple) ==
    [c \in DOMAIN cs |->
        [cs[c] EXCEPT !.one_to_two = WithLocalSettings(@, triple),
                      !.two_to_one = WithLocalSettings(@, triple)]]

\* The recorded call for the amount final_value_msat on channel map cs.
CallFor(cs, final_value_msat) ==
    get_route(nodes, cs, result.target, result.last_hops, final_value_msat,
              result.final_cltv, result.overflow_checks)

\* The amounts of the comparison: the one of the recorded call and one of half
\* the width of the 64-bit integers.
ComparedValues == {result.final_value_msat, Half}

\* C22: the result of get_route does not depend on the fee_base_msat,
\* fee_proportional_millionths or cltv_expiry_delta of the directional records
\* whose source is the local node: on a graph that differs from the present
\* one in those fields only, a call with the same arguments gives the same
\* result.
C22_LocalFeesDoNotMatter ==
    result.op = "get_route" =>
        \A triple \in LocalSettings, final_value_msat \in ComparedValues :
            CallFor(LocalRecordsSet(channels, triple), final_value_msat)
                = CallFor(channels, final_value_msat)

\* C23: for every non-local node popped from the heap, the fee that get_route
\* derives by subtracting the node's cached inbound base fee and then the
\* proportional term equals exactly the cost accumulated at relaxation time
\* before the heuristic was added, for all values of the cached fees, of
\* final_value_msat and of the accumulated cost.
C23_PopRestoresAccumulatedCost ==
    result.op = "pop" => result.lowest_fee_to_peer_through_node = result.total_fee

\* The distance table and heap with which the loop of the recorded call
\* starts.
SearchStart ==
    LET S0 == [dist |-> [k \in DOMAIN nodes |->
                           [cost |-> U64Max,
                            base |-> nodes[k].lowest_inbound_channel_fee_base_msat,
                            prop |-> nodes[k].lowest_inbound_channel_fee_proportional_millionths,
                            hop |-> NoHop]],
               targets |-> {},
               panic |-> "None"]
        S1 == IF Has(nodes, result.target)
              THEN add_entries_to_cheapest_to_target_node(S0, channels,
                       nodes[result.target].channels, 1, result.target, 0,
                       result.final_value_msat, result.overflow_checks)
              ELSE S0
    IN AddLastHops(S1, nodes, result.last_hops, 1, result.target,
                   result.final_value_msat, result.overflow_checks)

\* The loop of the recorded call from state S on pops an entry whose cost is
\* greater than the cost the distance table holds for its node, and the
\* relaxation that follows the pop changes the distance table or the heap.
RECURSIVE StalePopAlters(_)
StalePopAlters(S) ==
    IF S.panic # "None" \/ S.targets = {} THEN FALSE
    ELSE
    LET top == HeapTop(S.targets)
        pubkey == top.pubkey
        lowest == top.lowest_fee_to_peer_through_node
        popped == [S EXCEPT !.targets = @ \ {top}]
    IN IF pubkey = our_node_id THEN FALSE
       ELSE IF ~Has(nodes, pubkey) THEN StalePopAlters(popped)
       ELSE
       LET node == nodes[pubkey]
           fee1 == SubW(lowest, node.lowest_inbound_channel_fee_base_msat)
           sum == AddW(fee1, result.final_value_msat)
           prod == MulW(node.lowest_inbound_channel_fee_proportional_millionths, sum)
           fee == SubW(fee1, prod \div Million)
           ovf == \/ SubOvf(lowest, node.lowest_inbound_channel_fee_base_msat)
                  \/ AddOvf(fee1, result.final_value_msat)
                  \/ MulOvf(node.lowest_inbound_channel_fee_proportional_millionths, sum)
                  \/ SubOvf(fee1, prod \div Million)
           relaxed == add_entries_to_cheapest_to_target_node(popped, channels,
                          node.channels, 1, pubkey, fee, result.final_value_msat,
                          result.overflow_checks)
       IN IF result.overflow_checks /\ ovf THEN FALSE
          ELSE IF lowest > S.dist[pubkey].cost /\ relaxed # popped THEN TRUE
          ELSE StalePopAlters(relaxed)

\* C24: a heap entry popped in get_route whose cost is greater than the best
\* cost that the distance table holds for its node is discarded: it triggers
\* no relaxation of the node's edges and alters no distance entry and no
\* stored hop.
C24_StalePopsAreDiscarded ==
    (result.op = "get_route" /\ result.target # our_node_id) =>
        ~StalePopAlters(SearchStart)

\* The directional records and hints that hop i of the returned route uses.
UsedBy(i) ==
    (IF Has(channels, result.hops[i].short_channel_id)
     THEN RecordsFrom(result.hops[i].short_channel_id, HopSource(i))
     ELSE {})
    \cup {result.last_hops[j] : j \in {j \in 1..Len(result.last_hops) :
             /\ result.last_hops[j].short_channel_id = result.hops[i].short_channel_id
             /\ result.last_hops[j].src_node_id = HopSource(i)}}

\* C25: in every returned Route, each hop but the last has the fee_msat that
\* the record or hint of the next hop charges for the amount it forwards,
\* fee_base + (final_value_msat + the fee_msat of the later hops but the last)
\* * fee_proportional / 1000000, and the cltv_expiry_delta of that record.
C25_HopPaysTheNextRecord ==
    Returned =>
        \A i \in 1..(Len(result.hops) - 1) :
            /\ UsedBy(i + 1) # {}
            /\ \A d \in UsedBy(i + 1) :
                  /\ result.hops[i].fee_msat =
                         HopFee(d, result.final_value_msat
                                       + FeesFrom(result.hops, i + 1))
                  /\ result.hops[i].cltv_expiry_delta = d.cltv_expiry_delta

\* C26: a ChannelClosed hint removes exactly the named channel from the
\* channel map, is a no-op when the channel is unknown, and changes nothing
\* else: the nodes with their channel lists, cached fees and metadata and all
\* other channels stay as they are; and a step that removes a channel is a
\* hint, removes one channel and leaves the nodes and the other channels
\* alone.
C26_OnlyChannelClosedRemoves ==
    /\ [](\A id \in ChanIds :
            LET o == handle_htlc_fail_channel_update(nodes, channels,
                         [type |-> "ChannelClosed", short_channel_id |-> id])
            IN /\ o.res = OkResult
               /\ ~o.poisoned
               /\ o.nodes = nodes
               /\ DOMAIN o.channels = DOMAIN channels \ {id}
               /\ \A c \in DOMAIN o.channels : o.channels[c] = channels[c])
    /\ [][DOMAIN channels \ DOMAIN channels' # {}
          => /\ result'.op = "handle_htlc_fail_channel_update"
             /\ nodes' = nodes
             /\ \E id \in DOMAIN channels :
                   /\ DOMAIN channels' = DOMAIN channels \ {id}
                   /\ \A c \in DOMAIN channels' : channels'[c] = channels[c]]_vars

\* A hint has closed a channel that a node still lists, and another channel
\* is still in the map.
C26_ChannelClosedAmongOthers ==
    /\ result.op = "handle_htlc_fail_channel_update"
    /\ channels # <<>>
    /\ \E n \in DOMAIN nodes : \E i \in 1..Len(nodes[n].channels) :
          ~Has(channels, nodes[n].channels[i])

\* The record that the flags of an update do not select.
OppositeOf(cs, msg) ==
    IF msg.flags % 2 = 1 THEN cs[msg.short_channel_id].one_to_two
    ELSE cs[msg.short_channel_id].two_to_one

\* A node but for its two cached inbound fees.
WithoutCache(n) ==
    [channels |-> n.channels, features |-> n.features,
     last_update |-> n.last_update, alias |-> n.alias]

\* C27: an accepted channel update with flag bit 0 clear modifies only the
\* one_to_two record of its channel (bit 0 set: only two_to_one) and the two
\* cached inbound fees of the destination node, the source of the opposite
\* record; the opposite record, all other channels, the source node and every
\* other node, and the channel list and metadata of the destination node are
\* unchanged.
C27_UpdateTouchesOneRecordAndOneCache ==
    \A msg \in ChannelUpdateMsgs :
        LET o == handle_channel_update(nodes, channels, msg)
            id == msg.short_channel_id
            dest == OppositeOf(channels, msg).src_node_id
            src == UpdateTarget(msg).src_node_id
        IN (Has(channels, id) /\ o.res = OkResult) =>
            /\ DOMAIN o.channels = DOMAIN channels
            /\ \A c \in DOMAIN channels \ {id} : o.channels[c] = channels[c]
            /\ o.channels[id].features = channels[id].features
            /\ OppositeOf(o.channels, msg) = OppositeOf(channels, msg)
            /\ DOMAIN o.nodes = DOMAIN nodes
            /\ \A n \in DOMAIN nodes \ {dest} : o.nodes[n] = nodes[n]
            /\ o.nodes[src] = nodes[src]
            /\ WithoutCache(o.nodes[dest]) = WithoutCache(nodes[dest])

\* C28: after any sequence of gossip handler calls from Router::new, the
\* cached lowest inbound base fee of every node is at most the fee_base_msat
\* of every enabled directional record pointing toward the node, and its
\* cached proportional fee at most the fee_proportional_millionths of every
\* such record.
C28_CacheIsALowerBound ==
    \A n \in DOMAIN nodes : \A d \in EnabledInbound(n) :
        /\ nodes[n].lowest_inbound_channel_fee_base_msat <= d.fee_base_msat
        /\ nodes[n].lowest_inbound_channel_fee_proportional_millionths
               <= d.fee_proportional_millionths

\* C29: for every graph reachable through gossip and every get_route query
\* the unsigned arithmetic of the search stays in range: the recorded call,
\* made in a build that checks every addition, subtraction and
\* multiplication, does not abort on one of them.
C29_SearchArithmeticInRange ==
    (result.op = "get_route" /\ result.target # our_node_id) =>
        get_route(nodes, channels, result.target, result.last_hops,
                  result.final_value_msat, result.final_cltv, TRUE).panic
            # "overflow"

====
